---- MODULE Spec2Model ----
(***************************************************************************)
(* sun-moon-builder: the TTL cache (Kache), the data service               *)
(* (SunMoonData.getSunMoonData) and the public entry point                 *)
(* (SunMoonBuilder.CreateImages), as state machines.                       *)
(*                                                                         *)
(* Time is a clock of instants (one tick stands for one millisecond of     *)
(* Date.getTime()); a local calendar day is DayLen consecutive instants,   *)
(* its last instant standing for 23:59:59.999.                             *)
(***************************************************************************)
EXTENDS Integers, Sequences, FiniteSets, TLC

\* ------------------------------------------------------------------ bounds
MaxTime == 2            \* the clock runs over the instants 0..MaxTime
DayLen == 2             \* instants per local calendar day
DrawCalls == 2          \* drawing calls a render issues on the canvas, in order

\* ------------------------------------------------------------- JSON values
\* A JSON document / JavaScript value held by the cache: its type and, for an
\* object (or the named properties put on an array), its members in insertion
\* order, each [key, value].  "ENOENT" and "garbage" are file states: no file,
\* and text JSON.parse rejects.
Doc(type, members) == [type |-> type, members |-> members]
EmptyStorage == Doc("object", <<>>)
NullEntry == [json |-> "null"]

\* What a call hands back besides a payload: null, undefined, or an exception.
Null == [json |-> "null", miss |-> TRUE]
Undefined == [json |-> "undefined"]
Exception(error) == [exception |-> error]
TypeError == Exception("TypeError")

HasKey(members, key) == \E i \in 1..Len(members) : members[i].key = key
Lookup(members, key) == members[CHOOSE i \in 1..Len(members) : members[i].key = key].value
PutMember(members, key, value) ==
    IF HasKey(members, key)
    THEN [i \in 1..Len(members) |->
            IF members[i].key = key THEN [key |-> key, value |-> value] ELSE members[i]]
    ELSE Append(members, [key |-> key, value |-> value])
DeleteMember(members, key) == SelectSeq(members, LAMBDA m : m.key # key)

\* new Date(expirationTime).toString(): the instant, human-readable.
DateToString(t) == <<"Date", t>>

KacheItem(expirationTime, newItem) ==
    [expiration |-> expirationTime, comment |-> DateToString(expirationTime), item |-> newItem]

\* ------------------------------------------------------------------- Kache
\* The load sweep of the constructor over Object.entries(cacheStorage), taken
\* before the loop: an entry that is null throws at cacheItem.expiration and the
\* catch leaves cacheStorage as it is at that point.
RECURSIVE Sweep(_, _, _)
Sweep(entries, members, t) ==
    IF entries = <<>> THEN members
    ELSE LET e == Head(entries) IN
         IF e.value = NullEntry THEN members
         ELSE IF e.value.expiration < t
              THEN Sweep(Tail(entries), DeleteMember(members, e.key), t)
              ELSE Sweep(Tail(entries), members, t)

\* A constructor that loads the backing file without the sweep.
KacheConstructorNoSweep(file, t) ==
    CASE file.type \in {"ENOENT", "garbage"} -> EmptyStorage
      [] OTHER -> file

\* new Kache(logger, cacheName) at instant t over the backing file.
KacheConstructor(file, t) ==
    CASE file.type \in {"ENOENT", "garbage"} -> EmptyStorage
      [] file.type = "object" -> Doc("object", Sweep(file.members, file.members, t))
      [] OTHER -> file

\* A get with the comparison of the expiration turned around.
KacheGetInverted(storage, key, t) ==
    IF storage.type = "null" THEN TypeError
    ELSE IF ~HasKey(storage.members, key) THEN Null
    ELSE LET cacheItem == Lookup(storage.members, key) IN
         IF cacheItem = NullEntry THEN TypeError
         ELSE IF cacheItem.expiration < t THEN cacheItem.item ELSE Null

\* Kache.get(key) at instant t.
KacheGet(storage, key, t) ==
    IF storage.type = "null" THEN TypeError
    ELSE IF ~HasKey(storage.members, key) THEN Null
    ELSE LET cacheItem == Lookup(storage.members, key) IN
         IF cacheItem = NullEntry THEN TypeError
         ELSE IF cacheItem.expiration > t THEN cacheItem.item ELSE Null

\* JSON.stringify of a stored value: JSON has no NaN, a number that is NaN is
\* written as null (a number is NaN or a count of ticks, told apart by its print).
NaN == "NaN"
JsonValue(value) ==
    IF value = NullEntry THEN NullEntry
    ELSE [value EXCEPT !.item =
             [f \in DOMAIN value.item |->
                 IF f = "lunarAgeDays" /\ ToString(value.item[f]) = ToString(NaN)
                 THEN "null" ELSE value.item[f]]]

\* JSON.stringify(this.cacheStorage, null, 4): an object serialises its members
\* in insertion order, an array only its elements (named properties are dropped).
JsonStringify(storage) ==
    IF storage.type = "array" THEN Doc("array", <<>>)
    ELSE Doc(storage.type,
             [i \in 1..Len(storage.members) |->
                 [key |-> storage.members[i].key, value |-> JsonValue(storage.members[i].value)]])

\* Kache.set(key, newItem, expirationTime); io is what fs.writeFileSync does.
KacheSet(storage, file, key, newItem, expirationTime, io) ==
    IF storage.type = "null"
    THEN [threw |-> TRUE, error |-> "TypeError", storage |-> storage, file |-> file]
    ELSE LET st == Doc(storage.type,
                       PutMember(storage.members, key, KacheItem(expirationTime, newItem)))
         IN CASE io = "ok"     -> [threw |-> FALSE, error |-> "none", storage |-> st,
                                   file |-> JsonStringify(st)]
              [] io = "EACCES" -> [threw |-> TRUE, error |-> io, storage |-> st, file |-> file]
              [] OTHER         -> [threw |-> TRUE, error |-> io, storage |-> st,
                                   file |-> Doc("garbage", <<>>)]

\* ------------------------------------------------------------ calendar
TimeZones == {0}                       \* offsets of timeZone from the clock, in instants
LatLons == {<<"42.4", "-71.6">>}
\* moment().tz(timeZone).format("YYYY-MM-DD"): the local calendar date of instant t.
LocalDate(t, tz) == (t + tz) \div DayLen
\* moment().tz(timeZone).endOf("day").valueOf(): 23:59:59.999 of that local day.
EndOfDay(t, tz) == (LocalDate(t, tz) + 1) * DayLen - 1 - tz
Dates == 0..LocalDate(MaxTime, 0)
\* `lat:${lat}-lon:${lon}-date:${dateParam}`
Key(lat, lon, dateParam) == <<"lat:", lat, "-lon:", lon, "-date:", dateParam>>
Keys == {Key(ll[1], ll[2], d) : ll \in LatLons, d \in Dates}

\* ------------------------------------------------------------ strings
CharAt(str, i) == SubSeq(str, i, i)
Digits == <<"0", "1", "2", "3", "4", "5", "6", "7", "8", "9">>
IsDigit(c) == \E i \in 1..10 : Digits[i] = c
DigitValue(c) == (CHOOSE i \in 1..10 : Digits[i] = c) - 1
AllDigits(str) == \A i \in 1..Len(str) : IsDigit(CharAt(str, i))

\* str.split(":")
RECURSIVE Split(_)
Split(str) ==
    IF \E i \in 1..Len(str) : CharAt(str, i) = ":"
    THEN LET i == CHOOSE j \in 1..Len(str) :
                     CharAt(str, j) = ":" /\ \A k \in 1..(j - 1) : CharAt(str, k) # ":"
         IN <<SubSeq(str, 1, i - 1)>> \o Split(SubSeq(str, i + 1, Len(str)))
    ELSE <<str>>

RECURSIVE Decimal(_)
Decimal(str) ==
    IF str = "" THEN 0
    ELSE 10 * Decimal(SubSeq(str, 1, Len(str) - 1)) + DigitValue(CharAt(str, Len(str)))

\* isNaN(Number(str)), for a string of digits, signs and other characters: the
\* empty string reads as 0, an optionally signed run of digits as its value,
\* anything else as NaN.
IsNaNNumber(str) ==
    ~ \/ AllDigits(str)
      \/ Len(str) > 1 /\ Head(str) \in {"-", "+"} /\ AllDigits(Tail(str))
\* Number(str) and +str where they are a number.
Number(str) ==
    IF AllDigits(str) THEN Decimal(str)
    ELSE IF Head(str) = "-" THEN 0 - Decimal(Tail(str)) ELSE Decimal(Tail(str))

\* SunMoonImage.getTwilight(timeStr, amPm)
getTwilight(timeStr, amPm) ==
    LET timeElements == Split(timeStr) IN
    IF \/ Len(timeElements) < 2
       \/ IsNaNNumber(timeElements[1])
       \/ IsNaNNumber(timeElements[2])
       \/ Number(timeElements[1]) < 0
       \/ Number(timeElements[1]) > 23
       \/ Number(timeElements[2]) < 0
       \/ Number(timeElements[2]) > 59
    THEN ""
    ELSE LET hour0 == IF Number(timeElements[1]) % 12 = 0 THEN 12 ELSE Number(timeElements[1]) % 12
             min0 == Number(timeElements[2])
             hour == IF amPm = "am"
                     THEN (IF min0 >= 36 THEN hour0 - 1 ELSE hour0 - 2)
                     ELSE (IF min0 < 36 THEN hour0 + 1 ELSE hour0 + 2)
             min == IF amPm = "am"
                    THEN (IF min0 >= 36 THEN min0 - 36 ELSE min0 + 24)
                    ELSE (IF min0 < 36 THEN min0 + 24 ELSE min0 - 36)
             hourStr == IF hour < 10 THEN "0" \o ToString(hour) ELSE ToString(hour)
             minStr == IF min < 10 THEN "0" \o ToString(min) ELSE ToString(min)
         IN hourStr \o ":" \o minStr

\* Angles are counted in quarters of a degree, the angle of one minute of the
\* day (`+timeElements[1] / 4` degrees).
PerDegree == 4
Degrees(d) == d * PerDegree

\* A getAngle that turns a minute into a whole degree.
getAngleDegreePerMinute(timeStr) ==
    LET timeElements == Split(timeStr) IN
    IF \/ Len(timeElements) < 2
       \/ IsNaNNumber(timeElements[1])
       \/ IsNaNNumber(timeElements[2])
       \/ Number(timeElements[1]) < 0
       \/ Number(timeElements[1]) > 23
       \/ Number(timeElements[2]) < 0
       \/ Number(timeElements[2]) > 59
    THEN [angle |-> 0, warn |-> TRUE]
    ELSE [angle |-> Degrees(Number(timeElements[1]) * 15 + Number(timeElements[2])),
          warn |-> FALSE]

\* SunMoonImage.getAngle(timeStr): the angle, and whether logger.warn was called.
getAngle(timeStr) ==
    LET timeElements == Split(timeStr) IN
    IF \/ Len(timeElements) < 2
       \/ IsNaNNumber(timeElements[1])
       \/ IsNaNNumber(timeElements[2])
       \/ Number(timeElements[1]) < 0
       \/ Number(timeElements[1]) > 23
       \/ Number(timeElements[2]) < 0
       \/ Number(timeElements[2]) > 59
    THEN [angle |-> 0, warn |-> TRUE]
    ELSE [angle |-> Degrees(Number(timeElements[1]) * 15) + Number(timeElements[2]),
          warn |-> FALSE]

\* A formatTime that takes noon for a morning hour.
formatTimeNoonAM(timeStr) ==
    LET timeElements == Split(timeStr) IN
    IF \/ Len(timeElements) < 2
       \/ IsNaNNumber(timeElements[1])
       \/ IsNaNNumber(timeElements[2])
       \/ Number(timeElements[1]) < 0
       \/ Number(timeElements[1]) > 23
       \/ Number(timeElements[2]) < 0
       \/ Number(timeElements[2]) > 59
    THEN ""
    ELSE LET hour == IF Number(timeElements[1]) % 12 = 0 THEN 12 ELSE Number(timeElements[1]) % 12
             min == Number(timeElements[2])
             minStr == IF min < 10 THEN "0" \o ToString(min) ELSE ToString(min)
             amPmStr == IF Number(timeElements[1]) > 12 THEN "PM" ELSE "AM"
         IN ToString(hour) \o ":" \o minStr \o " " \o amPmStr

\* SunMoonImage.formatTime(timeStr)
formatTime(timeStr) ==
    LET timeElements == Split(timeStr) IN
    IF \/ Len(timeElements) < 2
       \/ IsNaNNumber(timeElements[1])
       \/ IsNaNNumber(timeElements[2])
       \/ Number(timeElements[1]) < 0
       \/ Number(timeElements[1]) > 23
       \/ Number(timeElements[2]) < 0
       \/ Number(timeElements[2]) > 59
    THEN ""
    ELSE LET hour == IF Number(timeElements[1]) % 12 = 0 THEN 12 ELSE Number(timeElements[1]) % 12
             min == Number(timeElements[2])
             minStr == IF min < 10 THEN "0" \o ToString(min) ELSE ToString(min)
             amPmStr == IF Number(timeElements[1]) > 11 THEN "PM" ELSE "AM"
         IN ToString(hour) \o ":" \o minStr \o " " \o amPmStr

\* ------------------------------------------------------------ the moon
\* Days and ages are counted in ticks of 27 seconds, 3200 to the day, so that
\* the moon period, taken as 29.53 days, is a whole number of ticks that
\* divides by 32.  The Julian-day constants are in tenths of a day.
TicksPerDay == 3200
MIN_PER_DAY == 1440
MOON_PERIOD_DAYS == 94496
UNIX_EPOCH == 24405875
LUNAR_REFERENCE == 24515501

\* The % of JavaScript: the remainder has the sign of the dividend.
Rem(a, b) == IF a >= 0 THEN a % b ELSE 0 - ((0 - a) % b)

\* A Date: getTime() and getTimezoneOffset() (minutes).  The dates lie within
\* 45 days of the lunar reference (6 January 2000, day 10962 of the Unix
\* epoch), at midnight and noon UTC, on a machine in UTC or six hours west.
LunarDays == (10962 - 45)..(10962 + 45)
LunarDates ==
    [time : {d * TicksPerDay + f : d \in LunarDays, f \in {0, TicksPerDay \div 2}},
     offset : {0, 360}]

\* getMoonAgeDays: julianDate - LUNAR_REFERENCE.
SinceReference(date) ==
    date.time - (date.offset * TicksPerDay) \div MIN_PER_DAY
        + (UNIX_EPOCH - LUNAR_REFERENCE) * (TicksPerDay \div 10)

\* SunMoonData.getMoonAgeDays(date)
getMoonAgeDays(date) ==
    LET ageDays == Rem(SinceReference(date), MOON_PERIOD_DAYS)
    IN IF ageDays < 0 THEN ageDays + TicksPerDay ELSE ageDays

\* SunMoonData.getWaxWane(ageDays)
getWaxWane(ageDays) == IF ageDays * 2 < MOON_PERIOD_DAYS THEN "waxing" ELSE "waning"

\* SunMoonData.getPhaseStr(ageDays); phaseLength is MOON_PERIOD_DAYS / 16.
getPhaseStr(ageDays) ==
    CASE ageDays * 16 < MOON_PERIOD_DAYS      -> "New Moon"
      [] ageDays * 16 < MOON_PERIOD_DAYS * 3  -> "Waxing Crescent"
      [] ageDays * 16 < MOON_PERIOD_DAYS * 5  -> "First Quarter"
      [] ageDays * 16 < MOON_PERIOD_DAYS * 7  -> "Waxing Gibbous"
      [] ageDays * 16 < MOON_PERIOD_DAYS * 9  -> "Full Moon"
      [] ageDays * 16 < MOON_PERIOD_DAYS * 11 -> "Waning Gibbus"
      [] ageDays * 16 < MOON_PERIOD_DAYS * 13 -> "Last Quarter"
      [] ageDays * 16 < MOON_PERIOD_DAYS * 15 -> "Waning Crescent"
      [] OTHER                                -> "New Moon"

\* SunMoonData.getMoonIllumination(ageDays): 50 + 50 * cos(age / period * 360 +
\* 180 degrees), to no decimals, with "%".  The cosine is taken at the start of
\* the sixteenth of the period the age lies in; it is even, so the sign of the
\* age does not matter.
Illumination == <<0, 4, 15, 31, 50, 69, 85, 96, 100, 96, 85, 69, 50, 31, 15, 4>>
getMoonIllumination(ageDays) ==
    LET age == IF ageDays < 0 THEN 0 - ageDays ELSE ageDays
    IN ToString(Illumination[(((age * 16) \div MOON_PERIOD_DAYS) % 16) + 1]) \o "%"

\* The Date getSunMoonData hands to getMoonAgeDays for a date of the model's
\* calendar: midnight UTC of that day, as new Date(dateStr) gives it, day 0
\* being 6 January 2000, the day of the lunar reference.
DateOf(dateParam) == [time |-> (10962 + dateParam) * TicksPerDay, offset |-> 0]

\* getSunMoonData: the lunar fields assigned to the provider's answer.
Augment(rawJson, date) ==
    LET lunarAgeDays == getMoonAgeDays(date) IN
    [f \in DOMAIN rawJson \cup {"lunarAgeDays", "lunarIllumination", "lunarWaxWane", "lunarPhase"} |->
        CASE f = "lunarAgeDays"      -> lunarAgeDays
          [] f = "lunarIllumination" -> getMoonIllumination(lunarAgeDays)
          [] f = "lunarWaxWane"      -> getWaxWane(lunarAgeDays)
          [] f = "lunarPhase"        -> getPhaseStr(lunarAgeDays)
          [] OTHER                   -> rawJson[f]]

\* ------------------------------------------------------------ provider data
\* response.data of the astronomy API for a date: the raw fields read later.
RawJson(dateParam, variant) ==
    [date |-> dateParam,
     sunrise |-> "06:20",
     sunset |-> "19:04",
     moonrise |-> IF variant = 1 THEN "10:22" ELSE "-:-",
     moonset |-> IF variant = 1 THEN "21:11" ELSE "09:40"]
Variants == {1, 2}
\* A snapshot as getSunMoonData completes it for a date string Date cannot
\* parse: getMoonAgeDays(new Date(dateStr)) is NaN.
InvalidDateJson ==
    [date |-> 0, sunrise |-> "06:20", sunset |-> "19:04", moonrise |-> "10:22",
     moonset |-> "21:11", lunarAgeDays |-> NaN]
\* Time strings handed to getAngle: "HH:MM" of the provider for hours and
\* minutes of the day, the same with seconds, and strings that are no time.
Pad(n) == IF n < 10 THEN "0" \o ToString(n) ELSE ToString(n)
TimeStr(h, m) == Pad(h) \o ":" \o Pad(m)
Hours == 0..23
Minutes == {0, 1, 4, 15, 19, 30, 35, 36, 59}
Seconds == {":20", ":20.199"}
ValidTimes ==
    {TimeStr(h, m) : h \in Hours, m \in Minutes}
    \cup {TimeStr(h, m) \o sec : h \in {0, 8, 23}, m \in {0, 19, 59}, sec \in Seconds}
InvalidTimes ==
    {"25:00", "12:61", "abc", "", "24:00", "12:60", "-1:30", "12:-5", "ab:10", "10:cd", "1x:00"}
\* Strings with an empty field: Number("") is 0.
EmptyFieldTimes == {":30", "12:", ":"}
TimeInputs == ValidTimes \cup InvalidTimes \cup EmptyFieldTimes

\* The snapshots whose dial angles are computed: the fields getImage reads.
\* "-:-" is the provider's mark for no moonrise or moonset that day.
Sunrises == {"06:20", "05:59", "06:00", "07:36", "07:40", "01:10", "abc"}
Sunsets == {"19:04", "16:15", "16:24", "17:30", "18:00", "19:20", "19:24", "22:30", "abc"}
Moonrises == {"-:-", "10:22", "20:00", "23:59"}
Moonsets == {"-:-", "21:11", "06:40", "09:40"}
CurrentTimes == {"08:19:20.199", "08:19", "23:00", "06:20", "19:04:59.999", "abc", ""}
SunSnapshots ==
    [sunrise : Sunrises, sunset : Sunsets, moonrise : {"10:22"}, moonset : {"21:11"},
     current_time : CurrentTimes]
MoonSnapshots ==
    [sunrise : {"06:20", "05:59"}, sunset : {"19:04", "16:15"}, moonrise : Moonrises,
     moonset : Moonsets, current_time : {"08:19:20.199", "23:00"}]
Snapshots == SunSnapshots \cup MoonSnapshots

\* The time strings of the provider data, and getTwilight tabulated over them.
TimeStrings == TimeInputs \cup Sunrises \cup Sunsets \cup
               UNION {{RawJson(0, v).sunrise, RawJson(0, v).sunset,
                       RawJson(0, v).moonrise, RawJson(0, v).moonset} : v \in Variants}
Twilight == [timeStr \in TimeStrings, amPm \in {"am", "pm"} |-> getTwilight(timeStr, amPm)]
Payloads == {RawJson(d, v) : d \in {0}, v \in Variants} \cup {InvalidDateJson}

VARIABLES now,            \* the clock: Date.getTime() / moment()
          cacheFile,      \* the backing file at cachePath
          cacheStorage,   \* Kache.cacheStorage of the running process
          ret,            \* what the call on the cache made in the last step returned
          lastSet,        \* per key: the arguments of the most recent set()
          calls,          \* the CreateImages invocations of the process, pending or not
          done,           \* how the CreateImages invocation that ended in the last step went
          fetched         \* the keys (with their time zone) the provider was asked for during the current local day

vars == <<now, cacheFile, cacheStorage, ret, lastSet, calls, done, fetched>>
cacheVars == <<cacheFile, cacheStorage, ret, lastSet>>
appVars == <<calls, done, fetched>>

NoSet == [set |-> FALSE]
SetOf(item, expirationTime) == [set |-> TRUE, item |-> item, expiration |-> expirationTime]

\* The backing files a process may find: none, unparsable text, JSON that is
\* not a map (null, an array), and maps of up to two entries, an entry being a
\* KacheItem written by an earlier run or null.
FileExpirations == {-1, 1}
FileValues ==
    {NullEntry} \cup {KacheItem(e, Augment(RawJson(0, 1), DateOf(0))) : e \in FileExpirations}
FileMembers ==
    {<<>>}
    \cup {<<[key |-> k, value |-> v]>> : k \in Keys, v \in FileValues}
    \cup {<<[key |-> k1, value |-> v1], [key |-> k2, value |-> v2]>> :
            k1 \in Keys, k2 \in Keys, v1 \in FileValues, v2 \in FileValues}
InitialFiles ==
    {Doc(t, <<>>) : t \in {"ENOENT", "garbage", "null", "array"}}
    \cup {Doc("object", m) : m \in {x \in FileMembers : \A i, j \in 1..Len(x) : x[i].key = x[j].key => i = j}}

\* The sets of earlier runs that a well-formed backing file records.
SetsOf(file) ==
    [k \in Keys |->
        IF file.type = "object" /\ HasKey(file.members, k) /\ Lookup(file.members, k) # NullEntry
        THEN SetOf(Lookup(file.members, k).item, Lookup(file.members, k).expiration)
        ELSE NoSet]

Calls == {"A", "B"}
EmptyStr == -1                          \* dateStr = "": no date override
DateStrs == {EmptyStr} \cup Dates
NoRet == [op |-> "none", key |-> <<>>, value |-> Undefined]
Constructed == [op |-> "new", key |-> <<>>, value |-> Undefined]
Idle == [pc |-> "idle"]
NoneDone == [pc |-> "none"]

InitWith(files) ==
    /\ calls = [c \in Calls |-> Idle]
    /\ done = NoneDone
    /\ fetched = {}
    /\ now = 0
    /\ cacheFile \in files
    /\ cacheStorage = KacheConstructor(cacheFile, 0)
    /\ ret = Constructed
    /\ lastSet = SetsOf(cacheFile)

\* Time passes; at midnight of a time zone the record of its day's requests starts afresh.
Tick ==
    /\ now < MaxTime
    /\ now' = now + 1
    /\ fetched' = {s \in fetched : LocalDate(now + 1, s[2]) = LocalDate(now, s[2])}
    /\ done' = NoneDone
    /\ ret' = NoRet
    /\ UNCHANGED <<cacheFile, cacheStorage, lastSet, calls>>

\* ------------------------------------------------- the cache driven directly
SetExpirations == {2}
WriteOutcomes == {"ok", "EACCES", "ENOSPC"}

\* A process starts: new Kache(...) over the backing file.
Construct ==
    /\ cacheStorage' = KacheConstructor(cacheFile, now)
    /\ ret' = Constructed
    /\ lastSet' = SetsOf(cacheFile)
    /\ UNCHANGED <<now, cacheFile, appVars>>

\* A get that evicts the expired entry it finds.
GetEvictsExpired(key) ==
    /\ ret' = [op |-> "get", key |-> key, value |-> KacheGet(cacheStorage, key, now)]
    /\ cacheStorage' =
          IF /\ cacheStorage.type # "null"
             /\ HasKey(cacheStorage.members, key)
             /\ KacheGet(cacheStorage, key, now) = Null
          THEN Doc(cacheStorage.type, DeleteMember(cacheStorage.members, key))
          ELSE cacheStorage
    /\ UNCHANGED <<now, cacheFile, lastSet, appVars>>

\* Kache.get(key), called on the cache directly.
Get(key) ==
    /\ ret' = [op |-> "get", key |-> key, value |-> KacheGet(cacheStorage, key, now)]
    /\ UNCHANGED <<now, cacheFile, cacheStorage, lastSet, appVars>>

Set(key, newItem, expirationTime, io) ==
    LET r == KacheSet(cacheStorage, cacheFile, key, newItem, expirationTime, io) IN
    /\ cacheStorage' = r.storage
    /\ cacheFile' = r.file
    /\ ret' = [op |-> "set", key |-> key,
               value |-> IF r.threw THEN Exception(r.error) ELSE Undefined]
    /\ lastSet' = [lastSet EXCEPT ![key] = SetOf(newItem, expirationTime)]
    /\ UNCHANGED <<now, appVars>>

KacheNext ==
    \/ Tick
    \/ Construct
    \/ \E k \in Keys : Get(k)
    \/ \E k \in Keys, v \in Payloads, t \in SetExpirations, io \in WriteOutcomes : Set(k, v, t, io)

KacheInit == InitWith(InitialFiles)
KacheSpec == KacheInit /\ [][KacheNext]_vars

\* ------------------------------------------------------------ the program
\* What the provider does with a request: the request is rejected (network
\* error, timeout, error status), the body is null, the body is text that is
\* no JSON object, or the body is an object with the raw fields.
ProviderAnswers == {"throw", "null", "text", "object"}
\* The body of an answer that is an object: the almanac of a date is a fact,
\* the same whenever it is asked for.
Almanac(dateParam) == RawJson(dateParam, IF dateParam % 2 = 0 THEN 1 ELSE 2)
\* The snapshot getSunMoonData makes of that body.
AugmentedJson(dateParam) == Augment(Almanac(dateParam), DateOf(dateParam))
\* How the rest of a call goes once it holds a snapshot: nothing throws, the
\* drawing call number `at` throws, or writer.saveFile throws.
Finishes ==
    {[throws |-> t, at |-> 0] : t \in {"none", "saveFile"}}
    \cup {[throws |-> "draw", at |-> i] : i \in 1..DrawCalls}
\* Without a snapshot nothing is drawn or written, so nothing of it can throw.
FinishesOf(sunMoonJson) ==
    IF sunMoonJson = Null THEN {[throws |-> "none", at |-> 0]} ELSE Finishes
AppWriteOutcomes == {"ok", "EACCES"}

\* SunMoonData.getSunMoonData, the date the key and the URL carry.
DateParam(dateStr, tz, t) == IF dateStr = EmptyStr THEN LocalDate(t, tz) ELSE dateStr

\* A getSunMoonData that stores whatever body the provider answered with.
FetchResultStoresAnyBody(storage, file, key, tz, t, answer, io) ==
    IF answer = "throw"
    THEN [data |-> Null, storage |-> storage, file |-> file, stored |-> FALSE]
    ELSE LET rawJson == IF answer = "object" THEN AugmentedJson(key[6]) ELSE Null
             s == KacheSet(storage, file, key, rawJson, EndOfDay(t, tz), io)
         IN [data |-> IF s.threw THEN Null ELSE rawJson,
             storage |-> s.storage, file |-> s.file, stored |-> TRUE]

\* A getSunMoonData whose entries expire at the end of the day the key names.
FetchResultExpiresWithDateParam(storage, file, key, tz, t, answer, io) ==
    IF answer = "object"
    THEN LET rawJson == AugmentedJson(key[6])
             s == KacheSet(storage, file, key, rawJson, (key[6] + 1) * DayLen - 1 - tz, io)
         IN [data |-> IF s.threw THEN Null ELSE rawJson,
             storage |-> s.storage, file |-> s.file, stored |-> TRUE]
    ELSE [data |-> Null, storage |-> storage, file |-> file, stored |-> FALSE]

\* SunMoonData.getSunMoonData from the provider's answer on: the try block around
\* axios.get.  A rejected request, a null body and a body that is no object (the
\* first field assignment throws) all end as null; an object is stored with the
\* end of the local day as its expiration, and a throwing cache.set is caught
\* like the rest.
FetchResult(storage, file, key, tz, t, answer, io) ==
    IF answer = "object"
    THEN LET rawJson == AugmentedJson(key[6])
             s == KacheSet(storage, file, key, rawJson, EndOfDay(t, tz), io)
         IN [data |-> IF s.threw THEN Null ELSE rawJson,
             storage |-> s.storage, file |-> s.file, stored |-> TRUE]
    ELSE [data |-> Null, storage |-> storage, file |-> file, stored |-> FALSE]

\* SunMoonImage.getImage, "Fix up the data": the snapshot object is written to.
FixUp(sunMoonJson) ==
    [f \in DOMAIN sunMoonJson \cup {"firstLight", "lastLight"} |->
        CASE f = "firstLight" -> Twilight[sunMoonJson.sunrise, "am"]
          [] f = "lastLight"  -> Twilight[sunMoonJson.sunset, "pm"]
          [] f = "moonrise"   -> IF sunMoonJson.moonrise = "-:-"
                                 THEN "0:0" ELSE sunMoonJson.moonrise
          [] f = "moonset"    -> IF sunMoonJson.moonset = "-:-"
                                 THEN "23:59" ELSE sunMoonJson.moonset
          [] OTHER            -> sunMoonJson[f]]

\* The snapshot getSunMoonData returns is the object the cache holds under the
\* key (get returns the stored item, set stores the object it is given), so the
\* fix-up of getImage is a write to the stored item.
FixUpStored(storage, key, sunMoonJson) ==
    IF sunMoonJson \in {Null, TypeError} THEN storage
    ELSE Doc(storage.type,
             PutMember(storage.members, key,
                       [Lookup(storage.members, key) EXCEPT !.item = FixUp(sunMoonJson)]))

\* A catch clause that logs and throws the exception on to the caller.
CatchExceptionRethrows(where) ==
    [returned |-> "rejected", saveFile |-> 0, caught |-> where, surface |-> 0, draws |-> 0]

\* SunMoonBuilder.CreateImages, the catch clause: the exception is logged and
\* the call answers false.
CatchException(where) ==
    [returned |-> "false", saveFile |-> 0, caught |-> where, surface |-> 0, draws |-> 0]

\* The drawing of getImage once it holds a snapshot, and the rest of
\* CreateImages: the canvas is made and the drawing calls are issued in order,
\* none of them inside a try block, so one that throws ends getImage there; the
\* image is then handed to writer.saveFile.  surface tells whether
\* the canvas was made, draws how many drawing calls were issued.
Render(finish) ==
    CASE finish.throws = "draw" ->
            [CatchException("getImage") EXCEPT !.surface = 1, !.draws = finish.at]
      [] finish.throws = "saveFile" ->
            [CatchException("saveFile") EXCEPT !.saveFile = 1, !.surface = 1, !.draws = DrawCalls]
      [] OTHER ->
            [returned |-> "true", saveFile |-> 1, caught |-> "none",
             surface |-> 1, draws |-> DrawCalls]

\* A getImage without the test for a null snapshot.
ImageResultNoNullTest(sunMoonJson, finish) == Render(finish)

\* A getImage that makes its canvas before it looks at the snapshot.
ImageResultCanvasFirst(sunMoonJson, finish) ==
    IF sunMoonJson = Null
    THEN [returned |-> "false", saveFile |-> 0, caught |-> "none", surface |-> 1, draws |-> 0]
    ELSE Render(finish)

\* SunMoonImage.getImage once getSunMoonData has answered, and the rest of
\* CreateImages: a null snapshot ends the call with false before any drawing;
\* otherwise the image is drawn, encoded and written.
ImageResult(sunMoonJson, finish) ==
    IF sunMoonJson = Null
    THEN [returned |-> "false", saveFile |-> 0, caught |-> "none", surface |-> 0, draws |-> 0]
    ELSE Render(finish)

Done(key, answer, data, invoked, res) ==
    [pc |-> "done", key |-> key, answer |-> answer, data |-> data, invoked |-> invoked,
     returned |-> res.returned, saveFile |-> res.saveFile, caught |-> res.caught,
     surface |-> res.surface, draws |-> res.draws]

\* A CreateImages whose getSunMoonData asks the provider without looking into
\* the cache.
CreateImagesAlwaysFetches(c, ll, tz, dateStr) ==
    /\ calls[c] = Idle
    /\ LET key == Key(ll[1], ll[2], DateParam(dateStr, tz, now))
       IN /\ fetched' = fetched \cup {<<key, tz>>}
          /\ calls' = [calls EXCEPT ![c] = [pc |-> "fetching", key |-> key, tz |-> tz]]
          /\ done' = NoneDone
    /\ UNCHANGED <<now, cacheVars>>

\* CreateImages(location, fileName, lat, lon, apiKey, timeZone, dateStr) up to
\* its first suspension: the cache lookup of getSunMoonData, then either the
\* whole call (a hit, or a throwing lookup) or the request to the provider.
CreateImages(c, ll, tz, dateStr) ==
    /\ calls[c] = Idle
    /\ LET key == Key(ll[1], ll[2], DateParam(dateStr, tz, now))
           sunMoonJson == KacheGet(cacheStorage, key, now)
       IN CASE sunMoonJson = TypeError ->
                 /\ done' = Done(key, "none", TypeError, 0, CatchException("cache.get"))
                 /\ UNCHANGED <<calls, fetched, cacheStorage>>
            [] sunMoonJson = Null ->
                 /\ fetched' = fetched \cup {<<key, tz>>}
                 /\ calls' = [calls EXCEPT ![c] =
                        [pc |-> "fetching", key |-> key, tz |-> tz]]
                 /\ done' = NoneDone
                 /\ UNCHANGED cacheStorage
            [] OTHER ->
                 /\ \E finish \in Finishes :
                        done' = Done(key, "none", sunMoonJson, 0, ImageResult(sunMoonJson, finish))
                 /\ cacheStorage' = FixUpStored(cacheStorage, key, sunMoonJson)
                 /\ UNCHANGED <<calls, fetched>>
    /\ UNCHANGED <<now, cacheFile, ret, lastSet>>

\* The provider answers the pending request of call c and the call runs to its
\* end: the rest of getSunMoonData, of getImage and of CreateImages.
ProviderResponds(c, answer, io) ==
    /\ calls[c].pc = "fetching"
    /\ LET call == calls[c]
           f == FetchResult(cacheStorage, cacheFile, call.key, call.tz, now, answer, io)
       IN /\ cacheStorage' = FixUpStored(f.storage, call.key, f.data)
          /\ cacheFile' = f.file
          /\ lastSet' = IF f.stored
                        THEN [lastSet EXCEPT ![call.key] =
                                 SetOf(AugmentedJson(call.key[6]), EndOfDay(now, call.tz))]
                        ELSE lastSet
          /\ calls' = [calls EXCEPT ![c] = Idle]
          /\ \E finish \in FinishesOf(f.data) :
                 done' = Done(call.key, answer, f.data, 1, ImageResult(f.data, finish))
    /\ UNCHANGED <<now, ret, fetched>>

Next ==
    \/ Tick
    \/ \E c \in Calls, ll \in LatLons, tz \in TimeZones, dateStr \in DateStrs :
          CreateImages(c, ll, tz, dateStr)
    \/ \E c \in Calls, answer \in ProviderAnswers, io \in AppWriteOutcomes :
          ProviderResponds(c, answer, io)

\* The program starts over no backing file, an unusable one, or a map of at
\* most one entry.
Init == InitWith({f \in InitialFiles : Len(f.members) <= 1 /\ \A i \in 1..Len(f.members) : f.members[i].key[6] = 0})
Spec == Init /\ [][Next]_vars

\* ------------------------------------------------------------ the dial
\* getAngle tabulated over the strings it is called with.
Angle ==
    [timeStr \in TimeInputs \cup Sunrises \cup Sunsets \cup Moonrises \cup Moonsets
                 \cup CurrentTimes \cup {"0:0", "23:59"} |-> getAngle(timeStr)]

\* A moonset angle left as getAngle gave it.
MoonsetAngleNoWrap(moonriseAngle, moonsetAngle) == moonsetAngle

\* getImage: "actual moonset for today's moonrise is tomorrow. Add 360 to the
\* moon angle".
MoonsetAngle(moonriseAngle, moonsetAngle) ==
    IF moonsetAngle < moonriseAngle THEN moonsetAngle + Degrees(360) ELSE moonsetAngle

\* A sun marker that counts the instants of sunrise and sunset as up.
SunFillInclusive(currentTimeAngle, sunriseAngle, sunsetAngle) ==
    IF currentTimeAngle >= sunriseAngle /\ currentTimeAngle <= sunsetAngle
    THEN "sunUpColor" ELSE "sunDownColor"

\* getImage: the fill of the inner circle of the sun marker.
SunFill(currentTimeAngle, sunriseAngle, sunsetAngle) ==
    IF currentTimeAngle > sunriseAngle /\ currentTimeAngle < sunsetAngle
    THEN "sunUpColor" ELSE "sunDownColor"

\* The geometry of the dial.
twilightDegrees == 24
imageWidth == 1920
sunCircleRadius == 380
moonCircleRadius == 300
sunRadius == 35
centerX == imageWidth \div 2

\* SunMoonImage.getRenderAngle(timeAngle), before the conversion to radians.
getRenderAngle(timeAngle) == Rem(timeAngle + Degrees(180) - Degrees(90), Degrees(360))

\* Label slots whose ninth slot lies on the eighth.
labelSlotsOverlapping ==
    << [x |-> 420, y |-> 350], [x |-> 370, y |-> 470], [x |-> 370, y |-> 680],
       [x |-> 420, y |-> 800], [x |-> 1470, y |-> 350], [x |-> 1520, y |-> 470],
       [x |-> 1520, y |-> 680], [x |-> 1470, y |-> 800], [x |-> 1470, y |-> 800] >>

\* The label slots of getImage; slot i of the source is labelSlots[i + 1].
labelSlots ==
    << [x |-> 420, y |-> 350], [x |-> 370, y |-> 470], [x |-> 370, y |-> 680],
       [x |-> 420, y |-> 800], [x |-> 1470, y |-> 350], [x |-> 1520, y |-> 470],
       [x |-> 1520, y |-> 680], [x |-> 1470, y |-> 800], [x |-> 1420, y |-> 920] >>

\* A sunrise placement that takes 06:00 for a sunrise after 6 AM.
SunriseLabelsStrict(sunriseAngle) ==
    IF sunriseAngle < Degrees(90)
    THEN [sunriseXY |-> labelSlots[2 + 1], amTwilightXY |-> labelSlots[3 + 1]]
    ELSE IF sunriseAngle < Degrees(90) + Degrees(twilightDegrees)
    THEN [sunriseXY |-> labelSlots[1 + 1], amTwilightXY |-> labelSlots[2 + 1]]
    ELSE [sunriseXY |-> labelSlots[0 + 1], amTwilightXY |-> labelSlots[1 + 1]]

\* getImage choosing the slots of the Sunrise and First light labels.
SunriseLabels(sunriseAngle) ==
    IF sunriseAngle <= Degrees(90)
    THEN [sunriseXY |-> labelSlots[2 + 1], amTwilightXY |-> labelSlots[3 + 1]]
    ELSE IF sunriseAngle < Degrees(90) + Degrees(twilightDegrees)
    THEN [sunriseXY |-> labelSlots[1 + 1], amTwilightXY |-> labelSlots[2 + 1]]
    ELSE [sunriseXY |-> labelSlots[0 + 1], amTwilightXY |-> labelSlots[1 + 1]]

\* A sunset placement whose third band ends at the twilight margin.
SunsetLabelsTwilightBand(sunsetAngle) ==
    IF sunsetAngle <= Degrees(270) - Degrees(twilightDegrees)
    THEN [sunsetXY |-> labelSlots[4 + 1], pmTwilightXY |-> labelSlots[5 + 1]]
    ELSE IF sunsetAngle < Degrees(270)
    THEN [sunsetXY |-> labelSlots[5 + 1], pmTwilightXY |-> labelSlots[6 + 1]]
    ELSE IF sunsetAngle <= Degrees(270) + Degrees(twilightDegrees)
    THEN [sunsetXY |-> labelSlots[6 + 1], pmTwilightXY |-> labelSlots[7 + 1]]
    ELSE [sunsetXY |-> labelSlots[7 + 1], pmTwilightXY |-> labelSlots[8 + 1]]

\* getImage choosing the slots of the Sunset and Last light labels.
SunsetLabels(sunsetAngle) ==
    IF sunsetAngle <= Degrees(270) - Degrees(twilightDegrees)
    THEN [sunsetXY |-> labelSlots[4 + 1], pmTwilightXY |-> labelSlots[5 + 1]]
    ELSE IF sunsetAngle < Degrees(270)
    THEN [sunsetXY |-> labelSlots[5 + 1], pmTwilightXY |-> labelSlots[6 + 1]]
    ELSE IF sunsetAngle <= Degrees(270) + Degrees(20)
    THEN [sunsetXY |-> labelSlots[6 + 1], pmTwilightXY |-> labelSlots[7 + 1]]
    ELSE [sunsetXY |-> labelSlots[7 + 1], pmTwilightXY |-> labelSlots[8 + 1]]

\* One drawing instruction: its kind, what it draws, the radii from the centre
\* of the dial between which its centre line lies (0 for what is not placed on
\* a circle) and, for an arc along a circle, its two render angles.
Stroke(kind, what, lo, hi, from, to) ==
    [kind |-> kind, what |-> what, lo |-> lo, hi |-> hi, from |-> from, to |-> to]
Arc(what, radius, from, to) ==
    Stroke("arc", what, radius, radius, getRenderAngle(from), getRenderAngle(to))
Line(what, lo, hi, at) == Stroke("line", what, lo, hi, getRenderAngle(at), getRenderAngle(at))
Disc(what, radius, halfWidth, at) ==
    Stroke("disc", what, radius - halfWidth, radius + halfWidth, getRenderAngle(at), getRenderAngle(at))
Text(what) == Stroke("text", what, 0, 0, 0, 0)

\* The instructions of getImage before the moon-up arc and the sun marker.
DrawingUnderlay(a) ==
    << Stroke("fill", "background", 0, 0, 0, 0),
       Text("title"),
       Stroke("line", "minor ticks", sunCircleRadius - 25, sunCircleRadius + 25, 0, 0),
       Stroke("line", "major ticks", sunCircleRadius - 30, sunCircleRadius + 30, 0, 0),
       Stroke("arc", "sun path", sunCircleRadius, sunCircleRadius, 0, Degrees(360)),
       Stroke("arc", "moon path", moonCircleRadius, moonCircleRadius, 0, Degrees(360)),
       Text("12 PM"), Text("12 AM"), Text("6 AM"), Text("6 PM"),
       Arc("sun up", sunCircleRadius, a.sunriseAngle, a.sunsetAngle),
       Arc("am twilight", sunCircleRadius, a.amTwilightAngle, a.sunriseAngle),
       Line("sunrise", sunCircleRadius - 50, sunCircleRadius + 50, a.sunriseAngle),
       Line("am twilight", sunCircleRadius - 50, sunCircleRadius + 50, a.amTwilightAngle),
       Arc("pm twilight", sunCircleRadius, a.sunsetAngle, a.pmTwilightAngle),
       Line("sunset", sunCircleRadius - 50, sunCircleRadius + 50, a.sunsetAngle),
       Line("pm twilight", sunCircleRadius - 50, sunCircleRadius + 50, a.pmTwilightAngle) >>

\* The moon-up arc with its two round caps.
DrawingMoonUp(a) ==
    << Arc("moon up", moonCircleRadius, a.moonriseAngle, a.moonsetAngle),
       Disc("moonrise cap", moonCircleRadius, 0, a.moonriseAngle),
       Disc("moonset cap", moonCircleRadius, 0, a.moonsetAngle) >>

\* The sun marker at the current time: the cleared circle, the sun, its inside.
DrawingSunMarker(a) ==
    << Disc("sun marker", sunCircleRadius, sunRadius + 5, a.currentTimeAngle),
       Disc("sun marker", sunCircleRadius, sunRadius, a.currentTimeAngle),
       Disc("sun marker", sunCircleRadius, sunRadius - 3, a.currentTimeAngle) >>

\* The labels, the moon's rise and set lines and the date.
DrawingLabels(a) ==
    << Text("Sunrise"), Text("sunrise time"), Text("Sunset"), Text("sunset time"),
       Text("First light"), Text("first light time"), Text("Last light"), Text("last light time"),
       Text("Moon"), Text("lunarPhase"), Text("lunarIllumination"),
       Text("Rise"), Text("moonrise time"), Text("Set"), Text("moonset time"),
       Line("moonrise", moonCircleRadius - 40, moonCircleRadius + 30, a.moonriseAngle),
       Line("moonset", moonCircleRadius - 40, moonCircleRadius + 30, a.moonsetAngle),
       Text("date") >>

\* A getImage that draws the sun marker before the moon-up arc.
DrawingMarkerBeforeMoon(a) ==
    DrawingUnderlay(a) \o DrawingSunMarker(a) \o DrawingMoonUp(a) \o DrawingLabels(a)

\* The drawing instructions of getImage in the order it issues them.
Drawing(a) ==
    DrawingUnderlay(a) \o DrawingMoonUp(a) \o DrawingSunMarker(a) \o DrawingLabels(a)

\* getImage from the fix-up of the snapshot to the placement of the labels:
\* the angles of the dial, the fill of the sun marker, the fields getAngle
\* warned about and the slots of the four sun labels.
DialAngles(sunMoonJson) ==
    LET fixed == FixUp(sunMoonJson)
        sunriseAngle == Angle[fixed.sunrise].angle
        sunsetAngle == Angle[fixed.sunset].angle
        moonriseAngle == Angle[fixed.moonrise].angle
        moonsetAngle == MoonsetAngle(moonriseAngle, Angle[fixed.moonset].angle)
        currentTimeAngle == Angle[fixed.current_time].angle
        angles == [sunriseAngle |-> sunriseAngle,
                   sunsetAngle |-> sunsetAngle,
                   amTwilightAngle |-> sunriseAngle - Degrees(twilightDegrees),
                   pmTwilightAngle |-> sunsetAngle + Degrees(twilightDegrees),
                   moonriseAngle |-> moonriseAngle,
                   moonsetAngle |-> moonsetAngle,
                   currentTimeAngle |-> currentTimeAngle]
    IN [sunriseAngle |-> sunriseAngle,
        sunsetAngle |-> sunsetAngle,
        amTwilightAngle |-> angles.amTwilightAngle,
        pmTwilightAngle |-> angles.pmTwilightAngle,
        moonriseAngle |-> moonriseAngle,
        moonsetAngle |-> moonsetAngle,
        currentTimeAngle |-> currentTimeAngle,
        sunFill |-> SunFill(currentTimeAngle, sunriseAngle, sunsetAngle),
        warned |-> {f \in {"sunrise", "sunset", "moonrise", "moonset", "current_time"} :
                       Angle[fixed[f]].warn},
        sunriseXY |-> SunriseLabels(sunriseAngle).sunriseXY,
        amTwilightXY |-> SunriseLabels(sunriseAngle).amTwilightXY,
        sunsetXY |-> SunsetLabels(sunsetAngle).sunsetXY,
        pmTwilightXY |-> SunsetLabels(sunsetAngle).pmTwilightXY]

\* getAngle applied to a time string.
GetAngle(timeStr) ==
    /\ ret' = [op |-> "getAngle", key |-> timeStr, value |-> Angle[timeStr]]
    /\ UNCHANGED <<now, cacheFile, cacheStorage, lastSet, appVars>>

\* getImage computing the angles of the dial for a snapshot.
GetImageAngles(sunMoonJson) ==
    /\ ret' = [op |-> "getImage", key |-> sunMoonJson, value |-> DialAngles(sunMoonJson)]
    /\ UNCHANGED <<now, cacheFile, cacheStorage, lastSet, appVars>>

\* getImage, having computed the angles of the dial for a snapshot, issuing
\* the drawing instructions.
GetImageDrawing ==
    /\ ret.op = "getImage"
    /\ ret' = [op |-> "draw", key |-> ret.key, value |-> [drawn |-> Drawing(ret.value)]]
    /\ UNCHANGED <<now, cacheFile, cacheStorage, lastSet, appVars>>

\* getTwilight applied to a time string, before ("am") or after ("pm").
GetTwilight(timeStr, amPm) ==
    /\ ret' = [op |-> "getTwilight", key |-> <<timeStr, amPm>>, value |-> Twilight[timeStr, amPm]]
    /\ UNCHANGED <<now, cacheFile, cacheStorage, lastSet, appVars>>

\* formatTime tabulated over the strings it is called with.
Formatted == [timeStr \in TimeInputs |-> formatTime(timeStr)]

\* formatTime applied to a time string.
FormatTime(timeStr) ==
    /\ ret' = [op |-> "formatTime", key |-> timeStr, value |-> Formatted[timeStr]]
    /\ UNCHANGED <<now, cacheFile, cacheStorage, lastSet, appVars>>

DialInit == InitWith({Doc("ENOENT", <<>>)})
DialNext ==
    \/ \E timeStr \in TimeInputs : GetAngle(timeStr)
    \/ \E timeStr \in TimeInputs, amPm \in {"am", "pm"} : GetTwilight(timeStr, amPm)
    \/ \E timeStr \in TimeInputs : FormatTime(timeStr)
    \/ \E sunMoonJson \in Snapshots : GetImageAngles(sunMoonJson)
    \/ GetImageDrawing
DialSpec == DialInit /\ [][DialNext]_vars

\* ------------------------------------------------------------ the moon, applied
\* The ages getPhaseStr is asked about: the start, the second tick and the last
\* tick of each of the 16 bins, and half the period.
PhaseAges ==
    {(k * MOON_PERIOD_DAYS) \div 16 + d :
        k \in 0..15, d \in {0, 1, MOON_PERIOD_DAYS \div 16 - 1}}
    \cup {MOON_PERIOD_DAYS \div 2}

\* getSunMoonData, the lunar fields it adds to the provider's answer for a date.
LunarAugment(date) ==
    /\ ret' = [op |-> "lunar", key |-> date,
               value |-> LET lunarAgeDays == getMoonAgeDays(date) IN
                         [lunarAgeDays |-> lunarAgeDays,
                          lunarWaxWane |-> getWaxWane(lunarAgeDays),
                          lunarPhase |-> getPhaseStr(lunarAgeDays)]]
    /\ UNCHANGED <<now, cacheFile, cacheStorage, lastSet, appVars>>

\* getPhaseStr applied to an age.
GetPhaseStr(ageDays) ==
    /\ ret' = [op |-> "getPhaseStr", key |-> ageDays, value |-> getPhaseStr(ageDays)]
    /\ UNCHANGED <<now, cacheFile, cacheStorage, lastSet, appVars>>

LunarInit == InitWith({Doc("ENOENT", <<>>)})
LunarNext ==
    \/ \E date \in LunarDates : LunarAugment(date)
    \/ \E ageDays \in PhaseAges : GetPhaseStr(ageDays)
LunarSpec == LunarInit /\ [][LunarNext]_vars

\* ------------------------------------------------------------ properties
\* The entry the in-memory store holds under key is a KacheItem that has not
\* expired at instant t.
Unexpired(storage, key, t) ==
    /\ storage.type # "null"
    /\ HasKey(storage.members, key)
    /\ Lookup(storage.members, key) # NullEntry
    /\ Lookup(storage.members, key).expiration > t

\* Call c starts a request to the provider in this step.
StartsFetch(c) == calls[c].pc = "idle" /\ calls'[c].pc = "fetching"

\* A call looks key up in this step, at the start of its getSunMoonData: it
\* ends in the step without a request, or it starts a request for the key.
LooksUp(key) ==
    \/ done'.pc = "done" /\ done'.invoked = 0 /\ done'.key = key
    \/ \E c \in Calls : StartsFetch(c) /\ calls'[c].key = key

\* The provider answers the request of call c in this step.
Answered(c) == calls[c].pc = "fetching" /\ calls'[c].pc = "idle"

\* The provider answers that are failures or carry no data.
FailingAnswers == {"throw", "null", "text"}

\* C1: when the provider fails, so that getSunMoonData yields null, CreateImages
\* returns false and does not call the writer's saveFile.
C1_NullSnapshotReturnsFalse ==
    (done.pc = "done" /\ done.data = Null) => (done.returned = "false" /\ done.saveFile = 0)
\* A call whose request the provider rejected has ended.
C1_Witness ==
    done.pc = "done" /\ done.answer = "throw" /\ done.data = Null /\ done.returned = "false"

\* C2: CreateImages never throws: a call ends with true or false, and every
\* exception raised in the lookup, the drawing or the writing ends it with false.
C2_NeverThrows ==
    done.pc = "done" =>
        /\ done.returned \in {"true", "false"}
        /\ done.caught # "none" => done.returned = "false"
\* A call in which writer.saveFile threw has ended.
C2_Witness == done.pc = "done" /\ done.caught = "saveFile" /\ done.saveFile = 1

\* C3, as the specification states it: within one local calendar day the
\* provider is asked at most once for a key, that is, no call starts a request
\* for a key the provider was already asked for that day.
C3_AtMostOneFetchPerDay ==
    [][\A c \in Calls : StartsFetch(c) => <<calls'[c].key, calls'[c].tz>> \notin fetched]_vars
\* C3, as the code has it: a call asks the provider only when the in-memory
\* store holds no unexpired entry under its key at the lookup, and it asks once.
C3_FetchOnlyOnMiss ==
    [][\A c \in Calls : StartsFetch(c) =>
          /\ ~Unexpired(cacheStorage, calls'[c].key, now)
          /\ \A d \in Calls \ {c} : calls'[d] = calls[d]]_vars
\* Two calls for the same key have each a request pending.
C3_Witness ==
    /\ calls["A"].pc = "fetching"
    /\ calls["B"].pc = "fetching"
    /\ calls["A"].key = calls["B"].key

\* C4: a getSunMoonData call whose key has an unexpired entry returns the cached
\* item, starts no request to the provider and makes no set: the backing file
\* and the entry's expiration stay as they are.
C4_HitServedFromCache ==
    [][\A key \in Keys :
          (Unexpired(cacheStorage, key, now) /\ LooksUp(key)) =>
              /\ done'.pc = "done"
              /\ done'.key = key
              /\ done'.data = Lookup(cacheStorage.members, key).item
              /\ done'.invoked = 0
              /\ calls' = calls
              /\ fetched' = fetched
              /\ cacheFile' = cacheFile
              /\ lastSet' = lastSet
              /\ Lookup(cacheStorage'.members, key).expiration
                    = Lookup(cacheStorage.members, key).expiration]_vars
\* A call served from the cache has ended with an image written.
C4_Witness ==
    done.pc = "done" /\ done.invoked = 0 /\ done.returned = "true" /\ done.data \notin {Null, TypeError}

Expected(set, t) == IF set.set /\ t < set.expiration THEN set.item ELSE Null

\* C6: get(k) returns the payload of the most recent set(k, v, t) exactly when
\* the current time is less than t, and null when k was never set or the
\* current time has reached t.
C6_GetReturnsLatestSet ==
    ret.op = "get" => ret.value = Expected(lastSet[ret.key], now)

\* C6 over a store that is a map and holds a KacheItem or nothing under the
\* key: get(k) returns the payload of the most recent set(k, v, t) exactly when
\* the current time is less than t, and null otherwise.
C6_GetReturnsLatestSetOfUsableStore ==
    (/\ ret.op = "get"
     /\ cacheStorage.type # "null"
     /\ ~(HasKey(cacheStorage.members, ret.key) /\ Lookup(cacheStorage.members, ret.key) = NullEntry))
        => ret.value = Expected(lastSet[ret.key], now)
\* A get has returned the payload of a set made in this process.
C6_Witness ==
    /\ ret.op = "get"
    /\ lastSet[ret.key].set
    /\ lastSet[ret.key].expiration \in SetExpirations
    /\ now < lastSet[ret.key].expiration
    /\ ret.value = lastSet[ret.key].item

\* Reading or parsing the backing file fails in the constructor: there is no
\* file, the text is no JSON, the JSON is no map, or an entry met in the sweep
\* is no KacheItem.
LoadFails(file) ==
    \/ file.type \in {"ENOENT", "garbage", "null", "array"}
    \/ file.type = "object" /\ \E i \in 1..Len(file.members) : file.members[i].value = NullEntry

\* C7: when reading or parsing the backing file fails during construction, the
\* cache starts as an empty store and every get returns null without throwing.
C7_FailedLoadStartsEmpty ==
    (ret.op = "new" /\ LoadFails(cacheFile)) =>
        /\ cacheStorage = EmptyStorage
        /\ \A k \in Keys : KacheGet(cacheStorage, k, now) = Null

\* C7 for the failures that happen before cacheStorage is assigned (no file,
\* text that is no JSON): the cache starts as the empty map.
C7_NoFileOrNoJsonStartsEmpty ==
    (ret.op = "new" /\ cacheFile.type \in {"ENOENT", "garbage"}) =>
        /\ cacheStorage = EmptyStorage
        /\ \A k \in Keys : KacheGet(cacheStorage, k, now) = Null
\* A cache has been constructed over a backing file cut short by a failed write.
C7_Witness ==
    ret.op = "new" /\ now > 0 /\ cacheFile.type = "garbage" /\ cacheStorage = EmptyStorage

\* C8: right after construction from a backing file that is a map of KacheItems,
\* the in-memory store holds no entry whose expiration is before the load time,
\* holds every entry of the file whose expiration is not before it, and holds
\* nothing else.
C8_LoadSweep ==
    (ret.op = "new" /\ cacheFile.type = "object" /\ ~LoadFails(cacheFile)) =>
        /\ cacheStorage.type = "object"
        /\ \A i \in 1..Len(cacheStorage.members) :
              /\ cacheStorage.members[i].value.expiration >= now
              /\ \E j \in 1..Len(cacheFile.members) : cacheFile.members[j] = cacheStorage.members[i]
        /\ \A j \in 1..Len(cacheFile.members) :
              cacheFile.members[j].value.expiration >= now =>
                 \E i \in 1..Len(cacheStorage.members) : cacheStorage.members[i] = cacheFile.members[j]
\* A cache has been constructed, after some time, from a file with an expired
\* entry and one that has not expired.
C8_Witness ==
    /\ ret.op = "new"
    /\ now > 0
    /\ cacheFile.type = "object"
    /\ ~LoadFails(cacheFile)
    /\ Len(cacheFile.members) = 2
    /\ Len(cacheStorage.members) = 1

\* C9: when set(k, v, t) returns, the backing file holds exactly the in-memory
\* mapping, and a cache constructed from that file at once returns the same
\* payload for every key that has not expired.
C9_SetPersistsStore ==
    (ret.op = "set" /\ ret.value = Undefined) =>
        /\ cacheFile = cacheStorage
        /\ \A k \in Keys :
              Unexpired(cacheStorage, k, now) =>
                 KacheGet(KacheConstructor(cacheFile, now), k, now) = KacheGet(cacheStorage, k, now)

\* C9 for a store that is a map whose payloads JSON can represent.
C9_SetPersistsMapOfJsonValues ==
    (/\ ret.op = "set"
     /\ ret.value = Undefined
     /\ cacheStorage.type = "object"
     /\ JsonStringify(cacheStorage) = cacheStorage) =>
        /\ cacheFile = cacheStorage
        /\ \A k \in Keys :
              Unexpired(cacheStorage, k, now) =>
                 KacheGet(KacheConstructor(cacheFile, now), k, now) = KacheGet(cacheStorage, k, now)
\* A set has returned with two entries in the store and in the backing file.
C9_Witness ==
    /\ ret.op = "set"
    /\ ret.value = Undefined
    /\ cacheStorage.type = "object"
    /\ Len(cacheStorage.members) = 2
    /\ cacheFile = cacheStorage

\* C10: the backing file is changed only by set; get changes neither the
\* in-memory store nor the backing file; the constructor does not write the
\* backing file.
C10_OnlySetWrites ==
    [][/\ cacheFile' # cacheFile => ret'.op = "set"
       /\ ret'.op = "get" => (cacheStorage' = cacheStorage /\ cacheFile' = cacheFile)
       /\ ret'.op = "new" => cacheFile' = cacheFile]_vars
\* A get has found an expired entry, which is still stored.
C10_Witness ==
    /\ ret.op = "get"
    /\ ret.value = Null
    /\ cacheStorage.type # "null"
    /\ HasKey(cacheStorage.members, ret.key)
    /\ Lookup(cacheStorage.members, ret.key) # NullEntry
    /\ Lookup(cacheStorage.members, ret.key).expiration <= now

\* The snapshot the store holds under key, where it holds one.
HoldsSnapshot(storage, key) ==
    /\ storage.type # "null"
    /\ HasKey(storage.members, key)
    /\ Lookup(storage.members, key) # NullEntry

\* C11: a snapshot stored in the cache never changes: the payload the store
\* holds under a key is the one handed to the most recent set, rendering does not
\* alter it, and every later cache hit returns the values originally stored.
C11_StoredSnapshotNeverChanges ==
    /\ \A k \in Keys :
          (HoldsSnapshot(cacheStorage, k) /\ lastSet[k].set) =>
              Lookup(cacheStorage.members, k).item = lastSet[k].item
    /\ (done.pc = "done" /\ done.invoked = 0 /\ done.data \notin {Null, TypeError}) =>
          done.data = lastSet[done.key].item

\* C11, what the code keeps: the stored payload is the one handed to the most
\* recent set or that payload after the fix-up of getImage, so its date, sunrise
\* and sunset are the values originally stored.
C11_StoredSnapshotIsOriginalOrFixedUp ==
    \A k \in Keys :
        (HoldsSnapshot(cacheStorage, k) /\ lastSet[k].set) =>
            LET item == Lookup(cacheStorage.members, k).item IN
            /\ item \in {lastSet[k].item, FixUp(lastSet[k].item)}
            /\ item.date = lastSet[k].item.date
            /\ item.sunrise = lastSet[k].item.sunrise
            /\ item.sunset = lastSet[k].item.sunset
\* A cache hit has returned a snapshot that carries the fields an earlier
\* rendering wrote into it.
C11_Witness ==
    /\ done.pc = "done"
    /\ done.invoked = 0
    /\ done.data \notin {Null, TypeError}
    /\ "firstLight" \in DOMAIN done.data
    /\ done.data # lastSet[done.key].item

\* C12: no drawing call is issued before getSunMoonData has completed, and when
\* it yields null (or throws) no canvas is made and no drawing call is issued:
\* the step in which a call suspends on its request ends no call, and a call
\* that ends without a snapshot has made no canvas and issued no drawing call.
C12_NoDrawingWithoutSnapshot ==
    [][/\ \A c \in Calls : StartsFetch(c) => done'.pc = "none"
       /\ (done'.pc = "done" /\ done'.data \in {Null, TypeError}) =>
             (done'.surface = 0 /\ done'.draws = 0)]_vars
\* A call whose request the provider answered with a null body has ended with
\* no canvas made.
C12_Witness ==
    /\ done.pc = "done"
    /\ done.answer = "null"
    /\ done.invoked = 1
    /\ done.data = Null
    /\ done.surface = 0

\* C13: a drawing call that fails does not abort the render: every call that
\* made its canvas has issued all of its drawing calls.
C13_FailedDrawDoesNotAbort ==
    (done.pc = "done" /\ done.surface = 1) => done.draws = DrawCalls

\* C13, what the code does: an exception of a drawing call leaves getImage; the
\* catch clause of CreateImages ends the call with false and nothing is written.
C13_FailedDrawEndsCallWithFalse ==
    (done.pc = "done" /\ done.caught = "getImage") =>
        (done.returned = "false" /\ done.saveFile = 0)
\* A call has ended in the catch clause after its first drawing call threw, the
\* remaining drawing calls not issued.
C13_Witness ==
    /\ done.pc = "done"
    /\ done.caught = "getImage"
    /\ done.draws = 1
    /\ done.draws < DrawCalls

C15_InvalidTimeGivesZero ==
    (ret.op = "getAngle" /\ ret.key \in InvalidTimes \cup EmptyFieldTimes) =>
        (ret.value.angle = 0 /\ ret.value.warn)

\* C15 for the inputs the code rejects (fewer than two fields, a field that is
\* text other than a number, a negative field, hour above 23, minute above 59):
\* getAngle returns 0 with a warning, and getImage goes on with that angle.
C15_RejectedTimeGivesZero ==
    /\ (ret.op = "getAngle" /\ ret.key \in InvalidTimes) =>
          (ret.value.angle = 0 /\ ret.value.warn)
    /\ (ret.op = "getImage" /\ ret.key.current_time \in InvalidTimes) =>
          /\ ret.value.currentTimeAngle = 0
          /\ "current_time" \in ret.value.warned
          /\ ret.value.sunFill \in {"sunUpColor", "sunDownColor"}
\* getAngle has answered "12:61" with 0 and a warning.
C15_Witness ==
    ret.op = "getAngle" /\ ret.key = "12:61" /\ ret.value.angle = 0 /\ ret.value.warn

\* C16: whenever the converted moonset angle is less than the moonrise angle,
\* 360 is added to it (rise 300, set 100 gives 460), and otherwise it is left;
\* the resolved moonset angle is never less than the moonrise angle and is
\* below 720.
C16_MoonsetNotBeforeMoonrise ==
    ret.op = "getImage" =>
        LET rise == Angle[FixUp(ret.key).moonrise].angle
            set == Angle[FixUp(ret.key).moonset].angle
        IN /\ ret.value.moonriseAngle = rise
           /\ ret.value.moonsetAngle = IF set < rise THEN set + Degrees(360) ELSE set
           /\ ret.value.moonsetAngle >= ret.value.moonriseAngle
           /\ ret.value.moonsetAngle < Degrees(720)
           /\ (ret.key.moonrise = "20:00" /\ ret.key.moonset = "06:40") =>
                 (rise = Degrees(300) /\ set = Degrees(100)
                  /\ ret.value.moonsetAngle = Degrees(460))
\* The angles of a moon that rises at 20:00 and sets at 06:40 have been resolved.
C16_Witness ==
    /\ ret.op = "getImage"
    /\ ret.key.moonrise = "20:00"
    /\ ret.key.moonset = "06:40"
    /\ ret.value.moonsetAngle = Degrees(460)

\* C17: a moonrise that is the no-event mark has the angle 0, a moonset that is
\* the no-event mark has the angle 360, and getAngle warns about neither.
C17_NoEventAngles ==
    ret.op = "getImage" =>
        /\ ret.key.moonrise = "-:-" =>
              (ret.value.moonriseAngle = 0 /\ "moonrise" \notin ret.value.warned)
        /\ ret.key.moonset = "-:-" =>
              (ret.value.moonsetAngle = Degrees(360) /\ "moonset" \notin ret.value.warned)

\* C17, what the code computes: the no-event moonrise becomes "0:0" with the
\* angle 0, the no-event moonset becomes "23:59" with the angle 359.75, and
\* getAngle warns about neither.
C17_NoEventAnglesOfFixUp ==
    ret.op = "getImage" =>
        /\ ret.key.moonrise = "-:-" =>
              (ret.value.moonriseAngle = 0 /\ "moonrise" \notin ret.value.warned)
        /\ ret.key.moonset = "-:-" =>
              (ret.value.moonsetAngle = Degrees(360) - 1 /\ "moonset" \notin ret.value.warned)
\* The angles of a day without moonset have been computed.
C17_Witness ==
    /\ ret.op = "getImage"
    /\ ret.key.moonset = "-:-"
    /\ ret.key.moonrise = "10:22"
    /\ ret.value.moonsetAngle = Degrees(360) - 1

\* C18: the sun marker is up exactly when the current-time angle lies strictly
\* between the sunrise angle and the sunset angle: with sunrise 06:20 and sunset
\* 19:04, 08:19 is up and 23:00 is down; a current time equal to sunrise or
\* sunset, or one that does not parse, is down.
C18_SunUpStrictlyBetween ==
    ret.op = "getImage" =>
        LET up == ret.value.sunFill = "sunUpColor"
            current_time == ret.key.current_time
        IN /\ ret.value.sunFill \in {"sunUpColor", "sunDownColor"}
           /\ up <=> /\ ret.value.currentTimeAngle > ret.value.sunriseAngle
                     /\ ret.value.currentTimeAngle < ret.value.sunsetAngle
           /\ current_time \in InvalidTimes => ~up
           /\ (ret.key.sunrise = "06:20" /\ ret.key.sunset = "19:04") =>
                 /\ current_time \in {"08:19", "08:19:20.199"} => up
                 /\ current_time \in {"23:00", "06:20", "19:04:59.999"} => ~up
\* The sun marker of 08:19 between sunrise 06:20 and sunset 19:04 is up.
C18_Witness ==
    /\ ret.op = "getImage"
    /\ ret.key.sunrise = "06:20"
    /\ ret.key.sunset = "19:04"
    /\ ret.key.current_time = "08:19"
    /\ ret.value.sunFill = "sunUpColor"

\* C19: for every date handed to getMoonAgeDays, dates before the lunar
\* reference included, 0 <= lunarAgeDays < moon period.
C19_AgeWithinPeriod ==
    ret.op = "lunar" =>
        (ret.value.lunarAgeDays >= 0 /\ ret.value.lunarAgeDays < MOON_PERIOD_DAYS)

\* C19, what the code computes: for a date at or after the lunar reference the
\* age lies in [0, period); for a date before it the remainder is negative and
\* one day is added, so the age lies between one day less than a period below
\* zero and one day.
C19_AgeWithinPeriodAfterReference ==
    ret.op = "lunar" =>
        IF SinceReference(ret.key) >= 0
        THEN /\ ret.value.lunarAgeDays >= 0
             /\ ret.value.lunarAgeDays < MOON_PERIOD_DAYS
             /\ ret.value.lunarAgeDays = SinceReference(ret.key) % MOON_PERIOD_DAYS
        ELSE /\ ret.value.lunarAgeDays > TicksPerDay - MOON_PERIOD_DAYS
             /\ ret.value.lunarAgeDays <= TicksPerDay
\* The age of a date before the lunar reference has come out negative.
C19_Witness ==
    ret.op = "lunar" /\ SinceReference(ret.key) < 0 /\ ret.value.lunarAgeDays < 0

\* The phase names of the specification, by bin pair.
PhaseNames ==
    <<"New Moon", "Waxing Crescent", "First Quarter", "Waxing Gibbous", "Full Moon",
      "Waning Gibbous", "Last Quarter", "Waning Crescent", "New Moon">>
\* The bin, of 16 equal bins of the period, an age falls into.
Bin(ageDays) == (ageDays * 16) \div MOON_PERIOD_DAYS

\* C20: getPhaseStr returns "New Moon" for bins 0 and 15 and, for the bin pairs
\* 1-2 to 13-14, Waxing Crescent, First Quarter, Waxing Gibbous, Full Moon,
\* Waning Gibbous, Last Quarter, Waning Crescent; it is "New Moon" for age 0 and
\* "Full Moon" for half the period.
C20_PhaseNames ==
    /\ ret.op = "getPhaseStr" =>
          /\ ret.value = PhaseNames[(Bin(ret.key) + 1) \div 2 + 1]
          /\ ret.key = 0 => ret.value = "New Moon"
          /\ ret.key * 2 = MOON_PERIOD_DAYS => ret.value = "Full Moon"
    /\ (ret.op = "lunar" /\ ret.value.lunarAgeDays >= 0) =>
          ret.value.lunarPhase = PhaseNames[(Bin(ret.value.lunarAgeDays) + 1) \div 2 + 1]

\* C20 outside bins 9 and 10, and the name the code returns inside them.
C20_PhaseNamesButWaningGibbous ==
    ret.op = "getPhaseStr" =>
        /\ Bin(ret.key) \notin {9, 10} => ret.value = PhaseNames[(Bin(ret.key) + 1) \div 2 + 1]
        /\ Bin(ret.key) \in {9, 10} => ret.value = "Waning Gibbus"
        /\ ret.key = 0 => ret.value = "New Moon"
        /\ ret.key * 2 = MOON_PERIOD_DAYS => ret.value = "Full Moon"
\* getPhaseStr has named half the period "Full Moon".
C20_Witness ==
    ret.op = "getPhaseStr" /\ ret.key * 2 = MOON_PERIOD_DAYS /\ ret.value = "Full Moon"

\* C21: a snapshot stored at instant T gets as its expiration the last instant
\* of the local calendar day of T, with or without a date override; a later
\* request for the key is served from the cache at every instant before the
\* expiration and is a miss that starts a new fetch from the expiration on.
C21_ExpiresAtEndOfLocalDay ==
    [][/\ \A c \in Calls :
             (Answered(c) /\ done'.answer = "object") =>
                 /\ HoldsSnapshot(cacheStorage', calls[c].key)
                 /\ LET e == Lookup(cacheStorage'.members, calls[c].key).expiration
                    IN /\ LocalDate(e, calls[c].tz) = LocalDate(now, calls[c].tz)
                       /\ LocalDate(e + 1, calls[c].tz) = LocalDate(now, calls[c].tz) + 1
       /\ \A key \in Keys :
             (HoldsSnapshot(cacheStorage, key) /\ LooksUp(key)) =>
                 IF now < Lookup(cacheStorage.members, key).expiration
                 THEN /\ done'.pc = "done"
                      /\ done'.invoked = 0
                      /\ done'.key = key
                      /\ done'.data = Lookup(cacheStorage.members, key).item
                      /\ calls' = calls
                 ELSE \E c \in Calls : StartsFetch(c) /\ calls'[c].key = key]_vars
\* A call with a date override for a later day misses the entry stored for that
\* key earlier in the day, at the last instant of the day it was stored in.
C21_Witness ==
    \E c \in Calls :
        /\ calls[c].pc = "fetching"
        /\ HoldsSnapshot(cacheStorage, calls[c].key)
        /\ Lookup(cacheStorage.members, calls[c].key).expiration = now
        /\ calls[c].key[6] > LocalDate(now, calls[c].tz)

\* The lunar fields getSunMoonData adds to a snapshot for the date of its key.
HasLunarFields(sunMoonJson, dateParam) ==
    /\ {"lunarAgeDays", "lunarIllumination", "lunarWaxWane", "lunarPhase"} \subseteq DOMAIN sunMoonJson
    /\ sunMoonJson.lunarAgeDays = getMoonAgeDays(DateOf(dateParam))
    /\ sunMoonJson.lunarIllumination = getMoonIllumination(sunMoonJson.lunarAgeDays)
    /\ sunMoonJson.lunarWaxWane = getWaxWane(sunMoonJson.lunarAgeDays)
    /\ sunMoonJson.lunarPhase = getPhaseStr(sunMoonJson.lunarAgeDays)

\* C22: getSunMoonData returns null only when the provider failed or returned
\* no data; whenever the provider returns raw fields the call returns the
\* snapshot with its lunar fields, even if storing it in the cache fails.
C22_NullOnlyOnProviderFailure ==
    (done.pc = "done" /\ done.invoked = 1) =>
        /\ done.data = Null => done.answer \in FailingAnswers
        /\ done.answer = "object" =>
              (done.data # Null /\ HasLunarFields(done.data, done.key[6]))

\* C22, what the code does: a failing answer gives null; raw fields give the
\* snapshot with its lunar fields, or null when cache.set threw.
C22_SnapshotOrNullAfterRawFields ==
    (done.pc = "done" /\ done.invoked = 1) =>
        /\ done.answer \in FailingAnswers => done.data = Null
        /\ (done.answer = "object" /\ done.data # Null) =>
              /\ HasLunarFields(done.data, done.key[6])
              /\ done.data.sunrise = Almanac(done.key[6]).sunrise
              /\ done.data.moonrise = Almanac(done.key[6]).moonrise
\* The provider returned raw fields, the backing file could not be written, and
\* the call has ended with a null snapshot.
C22_Witness ==
    /\ done.pc = "done"
    /\ done.invoked = 1
    /\ done.answer = "object"
    /\ done.data = Null
    /\ done.returned = "false"

\* The minute of the day a string "HH:MM" names, read as a 24-hour time.
MinuteOfDay(str) == Number(Split(str)[1]) * 60 + Number(Split(str)[2])

\* C23: getTwilight shifts a valid time by exactly 96 minutes: the first-light
\* string is the sunrise time minus 96 minutes and the last-light string the
\* sunset time plus 96 minutes, each read as a 24-hour HH:MM time of day.
C23_TwilightShiftsBy96Minutes ==
    ret.op = "getTwilight" =>
        \A h \in Hours, m \in Minutes :
            ret.key[1] = TimeStr(h, m) =>
                IF ret.key[2] = "am"
                THEN ret.value = TimeStr(((h * 60 + m + 1440 - 96) % 1440) \div 60,
                                         ((h * 60 + m + 1440 - 96) % 1440) % 60)
                ELSE ret.value = TimeStr(((h * 60 + m + 96) % 1440) \div 60,
                                         ((h * 60 + m + 96) % 1440) % 60)

\* C23, what the code computes: before a time from 02:00 to 12:59 the string is
\* the time minus 96 minutes; after a time it is a 12-hour clock reading (hours
\* 1 to 14) of the time plus 84 minutes.
C23_TwilightOfMorningHours ==
    ret.op = "getTwilight" =>
        \A h \in Hours, m \in Minutes :
            ret.key[1] = TimeStr(h, m) =>
                IF ret.key[2] = "am"
                THEN (h >= 2 /\ h <= 12) =>
                        ret.value = TimeStr((h * 60 + m - 96) \div 60, (h * 60 + m - 96) % 60)
                ELSE /\ MinuteOfDay(ret.value) % 720 = (h * 60 + m + 84) % 720
                     /\ MinuteOfDay(ret.value) # (h * 60 + m + 96) % 1440
\* getTwilight has answered "08:28" for the last light of a sunset at 19:04.
C23_Witness ==
    ret.op = "getTwilight" /\ ret.key = <<"19:04", "pm">> /\ ret.value = "08:28"

\* C24: for every valid time and either direction getTwilight returns an HH:MM
\* string with hour 0..23 and minute 0..59, which formatTime accepts, so that
\* the label is not empty.
C24_TwilightIsValidTime ==
    ret.op = "getTwilight" =>
        \A h \in Hours, m \in Minutes :
            ret.key[1] = TimeStr(h, m) =>
                /\ ~getAngle(ret.value).warn
                /\ formatTime(ret.value) # ""

\* C24, what the code computes: the minute is always in 0..59; the hour is in
\* 0..23 and the label not empty unless the time is before 01:36 or 13:36 in
\* its hour 1 or 13 and the direction is "am", where the hour comes out as -1,
\* the string as "0-1:MM" and the label empty.
C24_TwilightIsValidTimeButHourOne ==
    ret.op = "getTwilight" =>
        \A h \in Hours, m \in Minutes :
            ret.key[1] = TimeStr(h, m) =>
                /\ Len(Split(ret.value)) = 2
                /\ ~IsNaNNumber(Split(ret.value)[2])
                /\ Number(Split(ret.value)[2]) \in 0..59
                /\ IF ret.key[2] = "am" /\ h % 12 = 1 /\ m < 36
                   THEN /\ ret.value = "0-1:" \o Pad(m + 24)
                        /\ formatTime(ret.value) = ""
                   ELSE /\ ~getAngle(ret.value).warn
                        /\ formatTime(ret.value) # ""
\* getTwilight has answered "0-1:39" for the first light of a sunrise at 01:15.
C24_Witness ==
    ret.op = "getTwilight" /\ ret.key = <<"01:15", "am">> /\ ret.value = "0-1:39"

\* C30: for a valid time string formatTime returns "H:MM AM/PM", H the hour
\* reduced to 1..12 without leading zero (0 and 12 both show 12), MM the minute
\* in two digits, AM exactly below hour 12; for every input the validation of
\* getAngle rejects it returns the empty string.
C30_FormatTime ==
    ret.op = "formatTime" =>
        /\ \A h \in Hours, m \in Minutes, sec \in {""} \cup Seconds :
              ret.key = TimeStr(h, m) \o sec =>
                  ret.value = ToString(IF h % 12 = 0 THEN 12 ELSE h % 12) \o ":" \o Pad(m)
                                 \o (IF h < 12 THEN " AM" ELSE " PM")
        /\ Angle[ret.key].warn => ret.value = ""
        /\ ret.key \in InvalidTimes => ret.value = ""
\* formatTime has answered "12:00 PM" for noon.
C30_Witness ==
    ret.op = "formatTime" /\ ret.key = "12:00" /\ ret.value = "12:00 PM"

\* The snapshot's five time fields are valid times or the no-event marker.
ValidSnapshot == ret.op = "getImage" /\ ret.value.warned = {}
\* The dial angles getImage computes for the snapshot.
AllAngles ==
    {ret.value.sunriseAngle, ret.value.sunsetAngle, ret.value.moonriseAngle,
     ret.value.moonsetAngle, ret.value.currentTimeAngle,
     ret.value.amTwilightAngle, ret.value.pmTwilightAngle}

\* C25: every dial angle getImage computes (sunrise, sunset, moonrise, moonset,
\* current time and the two twilight bounds) is non-negative for every valid
\* snapshot; an angle exceeds 360 only by the moonset wraparound or as the
\* evening twilight bound.
C25_AnglesNonNegative ==
    ValidSnapshot =>
        /\ \A angle \in AllAngles : angle >= 0
        /\ \A angle \in {ret.value.sunriseAngle, ret.value.sunsetAngle, ret.value.moonriseAngle,
                         ret.value.currentTimeAngle, ret.value.amTwilightAngle} :
              angle <= Degrees(360)

\* C25, what the code computes: the five angles of getAngle and the evening
\* bound are non-negative; the morning bound is sunriseAngle - 24, negative
\* exactly for a sunrise before 01:36 and never below -24; only the moonset
\* (after the wraparound) and the evening bound exceed 360; every render angle
\* is at least 0 and below 360.
C25_AnglesNonNegativeButFirstLight ==
    ValidSnapshot =>
        /\ \A angle \in AllAngles \ {ret.value.amTwilightAngle} : angle >= 0
        /\ ret.value.amTwilightAngle = ret.value.sunriseAngle - Degrees(24)
        /\ ret.value.amTwilightAngle >= 0 - Degrees(24)
        /\ ret.value.amTwilightAngle < 0 <=> MinuteOfDay(ret.key.sunrise) < 96
        /\ \A angle \in {ret.value.sunriseAngle, ret.value.sunsetAngle, ret.value.moonriseAngle,
                         ret.value.currentTimeAngle, ret.value.amTwilightAngle} :
              angle < Degrees(360)
        /\ ret.value.moonsetAngle > Degrees(360) =>
              ret.value.moonsetAngle - Degrees(360) < ret.value.moonriseAngle
        /\ ret.value.pmTwilightAngle > Degrees(360) => MinuteOfDay(ret.key.sunset) > 1440 - 96
        /\ \A angle \in AllAngles : getRenderAngle(angle) \in 0..(Degrees(360) - 1)
\* getImage has computed a negative morning twilight bound for a sunrise at 01:10.
C25_Witness ==
    /\ ValidSnapshot
    /\ ret.key.sunrise = "01:10"
    /\ ret.value.amTwilightAngle < 0

\* The slot (0..8) whose point a label was given.
SlotOf(xy) == CHOOSE i \in 0..8 : labelSlots[i + 1] = xy

\* C26: a sunrise angle <= 90 puts Sunrise in slot 2 and First light in slot 3;
\* an angle above 90 and below 90 + 24 puts them in slots 1 and 2; a larger
\* angle in slots 0 and 1.  Both labels are in the left column and First light
\* is in the slot directly below Sunrise.
C26_SunriseLabelSlots ==
    ret.op = "getImage" =>
        /\ ret.value.sunriseAngle <= Degrees(90) =>
              SlotOf(ret.value.sunriseXY) = 2 /\ SlotOf(ret.value.amTwilightXY) = 3
        /\ (ret.value.sunriseAngle > Degrees(90) /\ ret.value.sunriseAngle < Degrees(90 + 24)) =>
              SlotOf(ret.value.sunriseXY) = 1 /\ SlotOf(ret.value.amTwilightXY) = 2
        /\ ret.value.sunriseAngle >= Degrees(90 + 24) =>
              SlotOf(ret.value.sunriseXY) = 0 /\ SlotOf(ret.value.amTwilightXY) = 1
        /\ ret.value.sunriseXY.x < centerX /\ ret.value.amTwilightXY.x < centerX
        /\ SlotOf(ret.value.amTwilightXY) = SlotOf(ret.value.sunriseXY) + 1
        /\ ret.value.amTwilightXY.y > ret.value.sunriseXY.y
\* getImage has placed the labels of a sunrise at 06:00 (angle 90) in slots 2 and 3.
C26_Witness ==
    /\ ret.op = "getImage"
    /\ ret.key.sunrise = "06:00"
    /\ ret.value.sunriseAngle = Degrees(90)
    /\ ret.value.sunriseXY = labelSlots[2 + 1]
    /\ ret.value.amTwilightXY = labelSlots[3 + 1]

\* The band of a sunset angle: 0 up to 270 - 24, 1 below 270, 2 up to 290, 3 above.
SunsetBand(sunsetAngle) ==
    IF sunsetAngle <= Degrees(246) THEN 0
    ELSE IF sunsetAngle < Degrees(270) THEN 1
    ELSE IF sunsetAngle <= Degrees(290) THEN 2 ELSE 3

\* C27: every sunset angle selects exactly one of the pairs (Sunset, Last
\* light) = (4,5), (5,6), (6,7), (7,8) by its band (<= 270 - 24; < 270; <= 290;
\* otherwise); the pair never moves up as the sunset angle grows, and slot 8 is
\* used only for Last light and only for a sunset angle above 290.
C27_SunsetLabelSlots ==
    ret.op = "getImage" =>
        /\ SlotOf(ret.value.sunsetXY) = 4 + SunsetBand(ret.value.sunsetAngle)
        /\ SlotOf(ret.value.pmTwilightXY) = 5 + SunsetBand(ret.value.sunsetAngle)
        /\ \A sunset \in Sunsets :
              Angle[sunset].angle <= ret.value.sunsetAngle =>
                  SlotOf(SunsetLabels(Angle[sunset].angle).sunsetXY) <= SlotOf(ret.value.sunsetXY)
        /\ ret.value.sunsetXY # labelSlots[8 + 1]
        /\ labelSlots[8 + 1] \notin {ret.value.sunriseXY, ret.value.amTwilightXY}
        /\ ret.value.pmTwilightXY = labelSlots[8 + 1] <=> ret.value.sunsetAngle > Degrees(290)
\* getImage has placed the labels of a sunset at 19:24 (angle 291) in slots 7 and 8.
C27_Witness ==
    /\ ret.op = "getImage"
    /\ ret.key.sunset = "19:24"
    /\ ret.value.sunsetAngle = Degrees(291)
    /\ ret.value.sunsetXY = labelSlots[7 + 1]
    /\ ret.value.pmTwilightXY = labelSlots[8 + 1]

\* C28: for every sunrise and sunset angle, the sentinel 0 of an invalid time
\* included, the labels Sunrise, First light, Sunset and Last light have four
\* pairwise distinct slots of the nine, the sunrise pair within slots 0-3 and
\* the sunset pair within slots 4-8.
C28_LabelSlotsDistinct ==
    ret.op = "getImage" =>
        /\ Cardinality({ret.value.sunriseXY, ret.value.amTwilightXY,
                        ret.value.sunsetXY, ret.value.pmTwilightXY}) = 4
        /\ {ret.value.sunriseXY, ret.value.amTwilightXY} \subseteq {labelSlots[i + 1] : i \in 0..3}
        /\ {ret.value.sunsetXY, ret.value.pmTwilightXY} \subseteq {labelSlots[i + 1] : i \in 4..8}
        /\ Cardinality({labelSlots[i + 1] : i \in 0..8}) = 9
\* getImage has placed the four labels of a snapshot whose sunrise is invalid
\* (angle 0) and whose sunset is after 19:20.
C28_Witness ==
    /\ ret.op = "getImage"
    /\ "sunrise" \in ret.value.warned
    /\ ret.value.sunriseAngle = 0
    /\ ret.value.sunsetAngle > Degrees(290)
    /\ ret.value.pmTwilightXY = labelSlots[8 + 1]

\* The places in the drawing of the instructions that draw one of the things named.
Places(names) == {i \in 1..Len(ret.value.drawn) : ret.value.drawn[i].what \in names}
\* Every instruction for the first things comes before every one for the second.
Before(first, second) ==
    /\ Places(first) # {}
    /\ Places(second) # {}
    /\ \A i \in Places(first), j \in Places(second) : i < j

\* C29: within one render the background fill is drawn first, then the guide
\* circles and tick marks, then the daylight arc, then the two twilight arcs,
\* then the moon-up arc, then the current-time marker, then the sunrise, sunset,
\* first-light and last-light labels; nothing drawn after the marker is an arc
\* or a stroke lying over it.
C29_DrawingOrder ==
    ret.op = "draw" =>
        /\ Places({"background"}) = {1}
        /\ Before({"background"}, {"minor ticks", "major ticks", "sun path", "moon path"})
        /\ Before({"minor ticks", "major ticks", "sun path", "moon path"}, {"sun up"})
        /\ Before({"sun up"}, {"am twilight", "pm twilight"})
        /\ Before({"am twilight", "pm twilight"}, {"moon up"})
        /\ Before({"moon up"}, {"sun marker"})
        /\ Before({"sun marker"}, {"Sunrise", "sunrise time", "Sunset", "sunset time",
                                   "First light", "first light time",
                                   "Last light", "last light time"})
        /\ \A i \in 1..Len(ret.value.drawn) :
              (\E j \in Places({"sun marker"}) : j < i) /\ ret.value.drawn[i].what # "sun marker" =>
                  /\ ret.value.drawn[i].kind \in {"text", "line"}
                  /\ ret.value.drawn[i].kind = "line" =>
                        ret.value.drawn[i].hi < sunCircleRadius - (sunRadius + 5)
\* getImage has drawn a dial whose moon-up arc (moonrise 20:00, moonset 06:40
\* the next day) passes the angle of the sun marker (23:00).
C29_Witness ==
    /\ ret.op = "draw"
    /\ ret.key.moonrise = "20:00"
    /\ ret.key.moonset = "06:40"
    /\ ret.key.current_time = "23:00"
    /\ Len(ret.value.drawn) = 41
    /\ \E i \in Places({"moon up"}), j \in Places({"sun marker"}) :
          /\ i < j
          /\ ret.value.drawn[i].from = getRenderAngle(Degrees(300))
          /\ ret.value.drawn[i].to = getRenderAngle(Degrees(100))
          /\ ret.value.drawn[j].from = getRenderAngle(Degrees(345))
====
